---- MODULE Spec2Model ----
(***************************************************************************)
(* Model of the provider-credential rotator (lib/apiKeyRotator.js), the    *)
(* daily reset (lib/scheduler.js), the administrator's credential          *)
(* creation (routes/productApis.js), the quota gate                        *)
(* (middleware/apiAuth.js), the try-on route behind it and the product-key  *)
(* routes (routes/apiKeys.js) of the try-on API server.                    *)
(*                                                                         *)
(* The database is PostgreSQL (migration.sql uses SERIAL/JSONB) and        *)
(* getNextApiKey opens prisma.$transaction without an isolationLevel, so   *)
(* the transaction runs READ COMMITTED: findFirst is a plain snapshot      *)
(* SELECT that takes no lock, and update writes the values computed in     *)
(* JavaScript from that snapshot.  The two statements are therefore two    *)
(* atomic steps of a caller, and other callers and the reset may run       *)
(* between them.                                                           *)
(***************************************************************************)
EXTENDS Integers, FiniteSets, Sequences, Bags, TLC

\* ---------------------------------------------------------------- bounds
NumKeys == 2          \* size of the id space of the credential table
NumProcs == 2         \* concurrent callers of getNextApiKey
MaxCalls == 2         \* getNextApiKey calls started in one behaviour
MaxFirings == 2       \* scheduler firings in one behaviour
MaxNow == 2           \* last value of the millisecond clock
MaxHeadroom == 1      \* initial counts lie in 0 or MAX_REQUESTS-MaxHeadroom..MAX_REQUESTS

NumUsers == 1         \* users of the product API
NumPKeys == 2         \* product API keys in the ApiKey table
NumSlots == 2         \* gated requests being processed at one time
MaxReqs == 3          \* gated requests sent in one behaviour
MaxPrior == 1         \* the free-tier user may start MaxPrior entries below the limit
MaxPlanLimit == 1     \* largest requestLimitMonthly of a plan
NumAccounts == 2      \* users that manage product keys

\* ------------------------------------------------------------- constants
MAX_REQUESTS == 249
FREE_TIER_LIMIT == 5
FREE_WINDOW_DAYS == 30

KeyIds == 1..NumKeys
Procs == 1..NumProcs

Users == 1..NumUsers
PKeys == 1..NumPKeys
Slots == 1..NumSlots

NoRow == [absent |-> TRUE]
NoKey == [none |-> TRUE]
NoSub == [nosub |-> TRUE]
NoReq == [noreq |-> TRUE]
NoHeader == [noheader |-> TRUE]
NoBody == [nobody |-> TRUE]
Null == 0 - 1

VARIABLES
  store,      \* GeminiApiKey table: id -> row or NoRow
  now,        \* the clock read by new Date() / CURRENT_TIMESTAMP
  pc,         \* position of each caller inside getNextApiKey
  nextKey,    \* the row each caller's findFirst returned
  calls,      \* number of getNextApiKey calls started
  succ,       \* calls that returned a key since the last reset
  fail,       \* calls that threw the pool-exhausted error since the last reset
  handed,     \* per credential: calls that returned it since the last reset
  resets,     \* successful reset firings
  resetErrors,\* reset firings whose updateMany failed
  created,    \* credentials added by the administrator
  periodStore, \* the table at the start, or as the last reset left it
  users,      \* User table with the current subscription and its plan
  apiKeys,    \* ApiKey table (product keys)
  usageLog,   \* ApiUsageLog table: a bag of entries
  reqs,       \* gated requests not yet answered: slot -> request or NoReq
  pendingLogs,    \* usage-log writes started by 'finish' listeners: a bag
  pendingTouches, \* fire-and-forget lastUsedAt updates under way: a bag
  lastResponse,   \* the response sent last, since the last request arrived
  sent,       \* number of gated requests sent
  decided,    \* per user: requests whose quota check has completed
  admitted,   \* per user: requests the gate admitted
  sequential, \* every request so far was sent after the previous response
  logFails    \* usage-log writes that failed

rotVars == <<store, pc, nextKey, calls, succ, fail, handed,
             resets, resetErrors, created, periodStore>>
gateVars == <<users, apiKeys, usageLog, reqs, pendingLogs, pendingTouches,
              lastResponse, sent, decided, admitted, sequential, logFails>>
vars == <<now, rotVars, gateVars>>

Exists(s, k) == s[k] # NoRow
Present(s) == {k \in KeyIds : Exists(s, k)}

\* GeminiApiKey row as the migration and the create call define it
NewRow(t) == [requestCount |-> 0, isRateLimited |-> FALSE, lastUsedAt |-> t]

\* where: { isRateLimited: false, requestCount: { lt: MAX_REQUESTS } }
EligibleNoFlag(row) == row.requestCount <= MAX_REQUESTS
Eligible(row) == row.isRateLimited = FALSE /\ row.requestCount < MAX_REQUESTS

\* orderBy: { lastUsedAt: 'asc' }
OrderedDesc(a, b) == a.lastUsedAt >= b.lastUsedAt
OrderedBefore(a, b) == a.lastUsedAt <= b.lastUsedAt

\* tx.geminiApiKey.findFirst: the ids the query may return (ties in
\* lastUsedAt are broken by the database); empty when no row matches
findFirst(s) ==
  LET cands == {k \in Present(s) : Eligible(s[k])}
  IN {k \in cands : \A j \in cands : OrderedBefore(s[k], s[j])}

\* const newCount = nextKey.requestCount + 1, where nextKey is the row
\* findFirst read and cur is the row now in the table
newCountFromTable(read, cur) == cur.requestCount + 1
newCount(read, cur) == read.requestCount + 1

\* const isNowRateLimited = newCount >= MAX_REQUESTS
isNowRateLimitedGt(n) == n > MAX_REQUESTS
isNowRateLimited(n) == n >= MAX_REQUESTS

\* data of updateMany in resetDailyCounts
ResetRowCountOnly(row) == [row EXCEPT !.requestCount = 0]
ResetRow(row) == [row EXCEPT !.requestCount = 0, !.isRateLimited = FALSE]

InitCounts == {0} \cup ((MAX_REQUESTS - MaxHeadroom)..MAX_REQUESTS)

InitRows ==
  {[requestCount |-> c, isRateLimited |-> (c >= MAX_REQUESTS), lastUsedAt |-> t] :
     c \in InitCounts, t \in {0}}

\* ids are SERIAL: the rows present at the start are 1..n
RotatorInit ==
  /\ store \in {f \in [KeyIds -> InitRows \cup {NoRow}] :
                  \A k \in KeyIds : \A j \in KeyIds :
                    (j > k /\ f[j] # NoRow) => f[k] # NoRow}
  /\ pc = [p \in Procs |-> "idle"]
  /\ nextKey = [p \in Procs |-> NoKey]
  /\ calls = 0
  /\ succ = 0
  /\ fail = 0
  /\ handed = [k \in KeyIds |-> IF Exists(store, k) THEN store[k].requestCount ELSE 0]
  /\ resets = 0
  /\ resetErrors = 0
  /\ created = 0
  /\ periodStore = store

\* ----------------------------------------------------------- quota gate

\* plaintext tokens: token i belongs to product key i, token 0 to no key
Tokens == 0..NumPKeys

\* hashApiKey: SHA-256 hex digest, collision-free on the tokens in use
hashApiKey(t) == 2 * t + 101

Headers ==
  {NoHeader, [scheme |-> "Basic", cred |-> 0]}
    \cup {[scheme |-> "Bearer", cred |-> t] : t \in Tokens}

\* the header that carries the token of product key i
KeyHeader(i) == [scheme |-> "Bearer", cred |-> i]

PlanLimits == 1..MaxPlanLimit

\* requestTimestamp of the entries the ledger holds at the start: at the
\* start (now = 1) exactly FREE_WINDOW_DAYS old
PriorStamp == 1 - FREE_WINDOW_DAYS

\* SubscriptionStatus other than 'active'
InactiveStatuses == {"trialing", "past_due", "canceled"}

\* the current subscription with its plan: an active one whose period began
\* with or just after the entries at PriorStamp, or one that is not active
Subs ==
  {NoSub}
  \cup {[status |-> "active",
         plan |-> [name |-> "Pro", requestLimitMonthly |-> l],
         currentPeriodStart |-> t] : l \in PlanLimits, t \in {PriorStamp, PriorStamp + 1}}
  \cup {[status |-> st,
         plan |-> [name |-> "Pro", requestLimitMonthly |-> 1],
         currentPeriodStart |-> PriorStamp + 1] : st \in InactiveStatuses}

UserRows ==
  {[accountStatus |-> a, currentSubscription |-> sub] :
     a \in {"active", "suspended"}, sub \in Subs}

\* a user in good standing without a subscription
FreeUser == [accountStatus |-> "active", currentSubscription |-> NoSub]

\* product key i belongs to user OwnerOf(i)
OwnerOf(i) == ((i - 1) % NumUsers) + 1

ApiKeyRows(i) ==
  {[userId |-> OwnerOf(i), status |-> st, keyHash |-> hashApiKey(i), lastUsedAt |-> Null] :
     st \in {"active", "revoked"}}

\* const authHeader = req.headers.authorization;
\* !authHeader || !authHeader.startsWith('Bearer ')
MissingCredentialNoScheme(h) == h = NoHeader
MissingCredential(h) == h = NoHeader \/ h.scheme # "Bearer"

\* the two 403 checks on the key that was found, in the order of the code
NoRejection == [error |-> "none"]
KeyRejectionSuspendedFirst(key, user) ==
  IF user.accountStatus = "suspended" THEN [error |-> "suspended"]
  ELSE IF key.status = "revoked" THEN [error |-> "revoked"]
  ELSE NoRejection
KeyRejection(key, user) ==
  IF key.status = "revoked" THEN [error |-> "revoked"]
  ELSE IF user.accountStatus = "suspended" THEN [error |-> "suspended"]
  ELSE NoRejection

\* prisma.apiKey.findUnique({ where: { keyHash } }): the ids that match
findUniqueAny(keys, hash) == {i \in PKeys : keys[i].keyHash # 0}
findUnique(keys, hash) == {i \in PKeys : keys[i].keyHash = hash}

\* step 3 of the middleware: limit and window of the request
IsActiveSubAnyStatus(sub) == sub # NoSub
IsActiveSub(sub) == sub # NoSub /\ sub.status = "active"

QuotaPolicy(sub, t) ==
  IF IsActiveSub(sub)
    THEN [limit |-> sub.plan.requestLimitMonthly,
          periodStart |-> sub.currentPeriodStart]
    ELSE [limit |-> FREE_TIER_LIMIT,
          periodStart |-> t - FREE_WINDOW_DAYS]

\* prisma.apiUsageLog.count({ where: { userId, requestTimestamp: { gte } } })
usageCountSuccessful(log, u, periodStart) ==
  LET hits == {e \in BagToSet(log) :
                 e.userId = u /\ e.requestTimestamp >= periodStart
                   /\ e.httpStatusCode < 400}
  IN BagCardinality([e \in hits |-> log[e]])
usageCount(log, u, periodStart) ==
  LET hits == {e \in BagToSet(log) :
                 e.userId = u /\ e.requestTimestamp >= periodStart}
  IN BagCardinality([e \in hits |-> log[e]])

\* usageCount >= requestLimit
OverQuotaGt(used, limit) == used > limit
OverQuota(used, limit) == used >= limit

\* body of the 429 response
QuotaBody(r, used) ==
  [limit |-> r.policy.limit,
   used |-> used,
   plan |-> IF r.subscription # NoSub THEN r.subscription.plan.name ELSE "Free Tier"]

NewReq(h) ==
  [header |-> h, pc |-> "sent", apiKeyData |-> 0, userData |-> 0,
   subscription |-> NoSub, policy |-> [limit |-> 0, periodStart |-> 0], ord |-> 0,
   tx |-> 0]

\* what the caller receives: res.status(st).json(body)
NoResponse == [status |-> 0]
Response(r, st, body) ==
  [status |-> st, body |-> body, apiKeyData |-> r.apiKeyData,
   userData |-> r.userData, ord |-> r.ord]

\* synchronous part of the 'finish' listener: the log write is started only
\* if apiKeyData && userData, with the status of the response
StartedLogUnguarded(r, st) ==
  SetToBag({[userId |-> r.userData, apiKeyId |-> r.apiKeyData, httpStatusCode |-> st]})
StartedLog(r, st) ==
  IF r.apiKeyData # 0 /\ r.userData # 0
    THEN SetToBag({[userId |-> r.userData, apiKeyId |-> r.apiKeyData,
                    httpStatusCode |-> st]})
    ELSE EmptyBag

\* the entry the 'finish' listener creates; requestTimestamp is the column
\* default CURRENT_TIMESTAMP
LogEntryStatusOk(u, i, t, st) ==
  [userId |-> u, apiKeyId |-> i, requestTimestamp |-> t, httpStatusCode |-> 200]
LogEntry(u, i, t, st) ==
  [userId |-> u, apiKeyId |-> i, requestTimestamp |-> t, httpStatusCode |-> st]

\* the ledger after c requests of user 1 were admitted, answered and logged
PriorLog(c) ==
  IF c = 0 THEN EmptyBag ELSE [e \in {LogEntry(1, 1, PriorStamp, 200)} |-> c]

PriorCounts ==
  (0..MaxPlanLimit) \cup {c \in (FREE_TIER_LIMIT - MaxPrior)..FREE_TIER_LIMIT : c > 0}

GateCounters(c) ==
  /\ usageLog = PriorLog(c)
  /\ reqs = [s \in Slots |-> NoReq]
  /\ pendingLogs = EmptyBag
  /\ pendingTouches = EmptyBag
  /\ lastResponse = NoResponse
  /\ sent = 0
  /\ decided = [u \in Users |-> IF u = 1 THEN c ELSE 0]
  /\ admitted = [u \in Users |-> IF u = 1 THEN c ELSE 0]
  /\ sequential = TRUE
  /\ logFails = 0

\* user 1 and the keys of user 1 are in any state; the other users are in
\* good standing with active keys
GateInit ==
  /\ users \in {f \in [Users -> UserRows] : \A u \in Users : u # 1 => f[u] = FreeUser}
  /\ apiKeys \in {f \in [PKeys -> UNION {ApiKeyRows(i) : i \in PKeys}] :
                    \A i \in PKeys :
                      (f[i] \in ApiKeyRows(i)) /\ (OwnerOf(i) # 1 => f[i].status = "active")}
  /\ \E c \in PriorCounts : GateCounters(c)

\* the gate at rest, for behaviours of the rotator alone
GateQuiet ==
  /\ users = [u \in Users |-> FreeUser]
  /\ apiKeys = [i \in PKeys |-> [userId |-> 1, status |-> "active",
                                 keyHash |-> hashApiKey(i), lastUsedAt |-> Null]]
  /\ GateCounters(0)

\* the rotator at rest, for behaviours of the gate alone
RotatorQuiet ==
  /\ store = [k \in KeyIds |-> NoRow]
  /\ pc = [p \in Procs |-> "idle"]
  /\ nextKey = [p \in Procs |-> NoKey]
  /\ calls = 0
  /\ succ = 0
  /\ fail = 0
  /\ handed = [k \in KeyIds |-> 0]
  /\ resets = 0
  /\ resetErrors = 0
  /\ created = 0
  /\ periodStore = store

Init ==
  /\ now = 1
  /\ RotatorInit
  /\ GateQuiet

\* the clock advances
Tick ==
  /\ now < MaxNow
  /\ now' = now + 1
  /\ UNCHANGED <<store, pc, nextKey, calls, succ, fail, handed,
                 resets, resetErrors, created, periodStore>>
  /\ UNCHANGED gateVars

\* getNextApiKey, first statement of the transaction: findFirst, and the
\* throw when it returns null (the transaction rolls back, the catch rethrows);
\* callers are interchangeable, a new call runs as the first idle one
getNextApiKeyFind(p) ==
  /\ pc[p] = "idle"
  /\ \A q \in Procs : q < p => pc[q] # "idle"
  /\ calls < MaxCalls
  /\ calls' = calls + 1
  /\ IF findFirst(store) = {}
       THEN /\ fail' = fail + 1
            /\ UNCHANGED <<pc, nextKey>>
       ELSE /\ \E k \in findFirst(store) :
                 nextKey' = [nextKey EXCEPT ![p] = [id |-> k, row |-> store[k]]]
            /\ pc' = [pc EXCEPT ![p] = "update"]
            /\ UNCHANGED fail
  /\ UNCHANGED <<store, now, succ, handed, resets, resetErrors, created, periodStore>>

\* a getNextApiKey call from outside the gate
FindNext(p) == getNextApiKeyFind(p) /\ UNCHANGED gateVars

\* getNextApiKey, second statement: update where id = nextKey.id, commit,
\* return nextKey.key
getNextApiKeyUpdate(p) ==
  /\ pc[p] = "update"
  /\ LET k == nextKey[p].id
         n == newCount(nextKey[p].row, store[k])
     IN /\ store' = [store EXCEPT ![k] =
                       [requestCount |-> n,
                        isRateLimited |-> isNowRateLimited(n),
                        lastUsedAt |-> now]]
        /\ handed' = [handed EXCEPT ![k] = @ + 1]
  /\ succ' = succ + 1
  /\ pc' = [pc EXCEPT ![p] = "idle"]
  /\ nextKey' = [nextKey EXCEPT ![p] = NoKey]
  /\ UNCHANGED <<now, calls, fail, resets, resetErrors, created, periodStore>>

UpdateKey(p) == getNextApiKeyUpdate(p) /\ UNCHANGED gateVars

\* scheduler firing, updateMany succeeds: one statement over every row
\* (the call has no where clause)
ResetDailyCountsUnflaggedOnly ==
  /\ resets + resetErrors < MaxFirings
  /\ store' = [k \in KeyIds |->
                 IF Exists(store, k) /\ ~store[k].isRateLimited
                   THEN ResetRow(store[k]) ELSE store[k]]
  /\ handed' = [k \in KeyIds |-> 0]
  /\ resets' = resets + 1
  /\ succ' = 0
  /\ fail' = 0
  /\ periodStore' = store'
  /\ UNCHANGED <<now, pc, nextKey, calls, resetErrors, created>>
  /\ UNCHANGED gateVars
ResetDailyCounts ==
  /\ resets + resetErrors < MaxFirings
  /\ store' = [k \in KeyIds |-> IF Exists(store, k) THEN ResetRow(store[k]) ELSE NoRow]
  /\ handed' = [k \in KeyIds |-> 0]
  /\ resets' = resets + 1
  /\ succ' = 0
  /\ fail' = 0
  /\ periodStore' = store'
  /\ UNCHANGED <<now, pc, nextKey, calls, resetErrors, created>>
  /\ UNCHANGED gateVars

\* scheduler firing, updateMany throws: the catch logs and returns; the
\* statement that failed has changed no row
ResetDailyCountsFailsPartial ==
  /\ resets + resetErrors < MaxFirings
  /\ resetErrors' = resetErrors + 1
  /\ \E done \in SUBSET Present(store) :
       store' = [k \in KeyIds |-> IF k \in done THEN ResetRow(store[k]) ELSE store[k]]
  /\ UNCHANGED <<now, pc, nextKey, calls, succ, fail, handed,
                 resets, created, periodStore>>
  /\ UNCHANGED gateVars
ResetDailyCountsFails ==
  /\ resets + resetErrors < MaxFirings
  /\ resetErrors' = resetErrors + 1
  /\ UNCHANGED <<store, now, pc, nextKey, calls, succ, fail, handed,
                 resets, created, periodStore>>
  /\ UNCHANGED gateVars

\* POST /api/admin/product-api: create({ data: { key } }); ids are SERIAL
CreateGeminiKey(k) ==
  /\ ~Exists(store, k)
  /\ \A j \in KeyIds : j > k => ~Exists(store, j)
  /\ store' = [store EXCEPT ![k] = NewRow(now)]
  /\ created' = created + 1
  /\ UNCHANGED <<now, pc, nextKey, calls, succ, fail, handed,
                 resets, resetErrors, periodStore>>
  /\ UNCHANGED gateVars

Next ==
  \/ Tick
  \/ \E p \in Procs : FindNext(p)
  \/ \E p \in Procs : UpdateKey(p)
  \/ ResetDailyCounts
  \/ ResetDailyCountsFails
  \/ \E k \in KeyIds : CreateGeminiKey(k)

Spec == Init /\ [][Next]_vars

\* a client sends a gated request; it is sequential when every earlier
\* request has been answered
SendRequest(h) ==
  /\ sent < MaxReqs
  /\ \E s \in Slots :
       /\ reqs[s] = NoReq
       /\ \A q \in Slots : q < s => reqs[q] # NoReq
       /\ reqs' = [reqs EXCEPT ![s] = NewReq(h)]
  /\ sent' = sent + 1
  /\ sequential' = (sequential /\ \A q \in Slots : reqs[q] = NoReq)
  /\ lastResponse' = NoResponse
  /\ UNCHANGED <<now, rotVars, users, apiKeys, usageLog, pendingLogs, pendingTouches,
                 decided, admitted, logFails>>

\* the response of the request in slot s is sent and 'finish' fires
SendResponse(s, r, st, body) ==
  /\ reqs' = [reqs EXCEPT ![s] = NoReq]
  /\ lastResponse' = Response(r, st, body)
  /\ pendingLogs' = pendingLogs (+) StartedLog(r, st)

\* apiAuthMiddleware up to the count query: header check, findUnique with
\* user, subscription and plan, the three rejections, the limit and window
GateLookup(s) ==
  /\ reqs[s] # NoReq
  /\ reqs[s].pc = "sent"
  /\ LET r == reqs[s]
         found == IF MissingCredential(r.header) THEN {}
                  ELSE findUnique(apiKeys, hashApiKey(r.header.cred))
     IN IF MissingCredential(r.header)
          THEN SendResponse(s, r, 401, [error |-> "missing"])
        ELSE IF found = {}
          THEN SendResponse(s, r, 401, [error |-> "invalid"])
        ELSE \E i \in found :
          IF KeyRejection(apiKeys[i], users[apiKeys[i].userId]) # NoRejection
            THEN SendResponse(s, r, 403, KeyRejection(apiKeys[i], users[apiKeys[i].userId]))
          ELSE LET u == apiKeys[i].userId
                   sub == users[u].currentSubscription
               IN /\ reqs' = [reqs EXCEPT ![s] =
                               [r EXCEPT !.pc = "quota", !.apiKeyData = i, !.userData = u,
                                         !.subscription = sub,
                                         !.policy = QuotaPolicy(sub, now)]]
                  /\ UNCHANGED <<lastResponse, pendingLogs>>
  /\ UNCHANGED <<now, rotVars, users, apiKeys, usageLog, pendingTouches, sent, decided, admitted,
                 sequential, logFails>>

\* apiAuthMiddleware from the count query on: 429, or the fire-and-forget
\* lastUsedAt update and next()
GateQuota(s) ==
  /\ reqs[s] # NoReq
  /\ reqs[s].pc = "quota"
  /\ LET r == reqs[s]
         u == r.userData
         used == usageCount(usageLog, u, r.policy.periodStart)
         rd == [r EXCEPT !.ord = decided[u] + 1]
     IN /\ decided' = [decided EXCEPT ![u] = @ + 1]
        /\ IF OverQuota(used, r.policy.limit)
             THEN /\ SendResponse(s, rd, 429, QuotaBody(r, used))
                  /\ UNCHANGED <<pendingTouches, admitted>>
             ELSE /\ reqs' = [reqs EXCEPT ![s] = [rd EXCEPT !.pc = "handler"]]
                  /\ admitted' = [admitted EXCEPT ![u] = @ + 1]
                  /\ pendingTouches' = pendingTouches (+)
                       SetToBag({[apiKeyId |-> r.apiKeyData, lastUsedAt |-> now]})
                  /\ UNCHANGED <<lastResponse, pendingLogs>>
  /\ UNCHANGED <<now, rotVars, users, apiKeys, usageLog, sent, sequential,
                 logFails>>

\* the downstream handler answers an admitted request: 200, 400 on a
\* validation error, 500 from the error handler
HandlerStatuses == {200, 400, 500}

Handler(s, st) ==
  /\ reqs[s] # NoReq
  /\ reqs[s].pc = "handler"
  /\ SendResponse(s, reqs[s], st, NoBody)
  /\ UNCHANGED <<now, rotVars, users, apiKeys, usageLog, pendingTouches, sent, decided, admitted,
                 sequential, logFails>>

\* 'finish' listener: prisma.apiUsageLog.create succeeds
LogWrite(e) ==
  /\ BagIn(e, pendingLogs)
  /\ pendingLogs' = pendingLogs (-) SetToBag({e})
  /\ usageLog' = usageLog (+)
       SetToBag({LogEntry(e.userId, e.apiKeyId, now, e.httpStatusCode)})
  /\ UNCHANGED <<now, rotVars, users, apiKeys, reqs, pendingTouches, lastResponse,
                 sent, decided, admitted, sequential, logFails>>

\* 'finish' listener: the create throws and the catch logs it
LogWriteFailsSurfaces(e) ==
  /\ BagIn(e, pendingLogs)
  /\ pendingLogs' = pendingLogs (-) SetToBag({e})
  /\ logFails' = logFails + 1
  /\ lastResponse' = [lastResponse EXCEPT !.status = 500]
  /\ UNCHANGED <<now, rotVars, users, apiKeys, usageLog, reqs, pendingTouches,
                 sent, decided, admitted, sequential>>
LogWriteFails(e) ==
  /\ BagIn(e, pendingLogs)
  /\ pendingLogs' = pendingLogs (-) SetToBag({e})
  /\ logFails' = logFails + 1
  /\ UNCHANGED <<now, rotVars, users, apiKeys, usageLog, reqs, pendingTouches,
                 lastResponse, sent, decided, admitted, sequential>>

\* the fire-and-forget prisma.apiKey.update of lastUsedAt completes
TouchKey(t) ==
  /\ BagIn(t, pendingTouches)
  /\ pendingTouches' = pendingTouches (-) SetToBag({t})
  /\ apiKeys' = [apiKeys EXCEPT ![t.apiKeyId].lastUsedAt = t.lastUsedAt]
  /\ UNCHANGED <<now, rotVars, users, usageLog, reqs, pendingLogs, lastResponse,
                 sent, decided, admitted, sequential, logFails>>

\* the update rejects and its .catch logs it
TouchKeyFails(t) ==
  /\ BagIn(t, pendingTouches)
  /\ pendingTouches' = pendingTouches (-) SetToBag({t})
  /\ UNCHANGED <<now, rotVars, users, apiKeys, usageLog, reqs, pendingLogs,
                 lastResponse, sent, decided, admitted, sequential, logFails>>

GateNext ==
  \/ SendRequest(KeyHeader(1))
  \/ \E s \in Slots : GateLookup(s)
  \/ \E s \in Slots : GateQuota(s)
  \/ \E s \in Slots, st \in HandlerStatuses : Handler(s, st)
  \/ \E e \in BagToSet(pendingLogs) : LogWrite(e)
  \/ \E e \in BagToSet(pendingLogs) : LogWriteFails(e)
  \/ \E t \in BagToSet(pendingTouches) : TouchKey(t)
  \/ \E t \in BagToSet(pendingTouches) : TouchKeyFails(t)

\* the requests of one client over time, with users in good standing
GateSpecInit ==
  /\ now \in {1, 2}
  /\ RotatorQuiet
  /\ GateInit
  /\ \A u \in Users : users[u].accountStatus = "active"
  /\ \A i \in PKeys : apiKeys[i].status = "active"

GateSpec == GateSpecInit /\ [][GateNext]_vars

\* one request against any tables, at a fixed time
Arrive(h) == sent = 0 /\ SendRequest(h)

RequestNext ==
  \/ \E h \in Headers : Arrive(h)
  \/ \E s \in Slots : GateLookup(s)
  \/ \E s \in Slots : GateQuota(s)
  \/ \E s \in Slots, st \in HandlerStatuses : Handler(s, st)
  \/ \E e \in BagToSet(pendingLogs) : LogWrite(e)
  \/ \E e \in BagToSet(pendingLogs) : LogWriteFails(e)
  \/ \E t \in BagToSet(pendingTouches) : TouchKey(t)
  \/ \E t \in BagToSet(pendingTouches) : TouchKeyFails(t)

RequestSpecInit ==
  /\ now \in {1, 2}
  /\ RotatorQuiet
  /\ GateInit

RequestSpec == RequestSpecInit /\ [][RequestNext]_vars

\* the ledger after c requests of user 1 were answered and logged: k of them
\* with key 1 and status 200, the others with another key of user 1 and 500
MixedLog(c, k, i) ==
  LET ok == LogEntry(1, 1, PriorStamp, 200)
      failed == LogEntry(1, i, PriorStamp, 500)
  IN [e \in (IF k > 0 THEN {ok} ELSE {}) \cup (IF c > k THEN {failed} ELSE {})
        |-> IF e = ok THEN k ELSE c - k]

MixedLogs(c, k) == {MixedLog(c, k, i) : i \in {j \in PKeys : j # 1 /\ OwnerOf(j) = 1}}

\* any tables as in GateInit, over a ledger written with several keys and
\* outcomes
LedgerInit ==
  /\ users \in {f \in [Users -> UserRows] : \A u \in Users : u # 1 => f[u] = FreeUser}
  /\ apiKeys \in {f \in [PKeys -> UNION {ApiKeyRows(i) : i \in PKeys}] :
                    \A i \in PKeys :
                      (f[i] \in ApiKeyRows(i)) /\ (OwnerOf(i) # 1 => f[i].status = "active")}
  /\ \E c \in PriorCounts : \E k \in 0..c :
       /\ usageLog \in MixedLogs(c, k)
       /\ decided = [u \in Users |-> IF u = 1 THEN c ELSE 0]
       /\ admitted = [u \in Users |-> IF u = 1 THEN c ELSE 0]
  /\ reqs = [s \in Slots |-> NoReq]
  /\ pendingLogs = EmptyBag
  /\ pendingTouches = EmptyBag
  /\ lastResponse = NoResponse
  /\ sent = 0
  /\ sequential = TRUE
  /\ logFails = 0

LedgerSpecInit ==
  /\ now \in {1, 2}
  /\ RotatorQuiet
  /\ LedgerInit

\* one request against a ledger of several keys and outcomes
LedgerSpec == LedgerSpecInit /\ [][RequestNext]_vars

\* POST /v1/try-on of an admitted request: the input fails validation
\* (ZodError, 400) before a credential is asked for
TryOnInvalid(s) ==
  /\ reqs[s] # NoReq
  /\ reqs[s].pc = "handler"
  /\ SendResponse(s, reqs[s], 400, NoBody)
  /\ UNCHANGED <<now, rotVars, users, apiKeys, usageLog, pendingTouches, sent, decided,
                 admitted, sequential, logFails>>

\* POST /v1/try-on: await getNextApiKey(), first statement; when the pool is
\* exhausted the error goes through next(error) to the 500 response
TryOnFind(s, p) ==
  /\ reqs[s] # NoReq
  /\ reqs[s].pc = "handler"
  /\ getNextApiKeyFind(p)
  /\ IF findFirst(store) = {}
       THEN SendResponse(s, reqs[s], 500, NoBody)
       ELSE /\ reqs' = [reqs EXCEPT ![s] = [@ EXCEPT !.pc = "allocating", !.tx = p]]
            /\ UNCHANGED <<lastResponse, pendingLogs>>
  /\ UNCHANGED <<users, apiKeys, usageLog, pendingTouches, sent, decided,
                 admitted, sequential, logFails>>

\* POST /v1/try-on: getNextApiKey(), second statement and return
TryOnUpdate(s) ==
  /\ reqs[s] # NoReq
  /\ reqs[s].pc = "allocating"
  /\ getNextApiKeyUpdate(reqs[s].tx)
  /\ reqs' = [reqs EXCEPT ![s] = [@ EXCEPT !.pc = "upstream"]]
  /\ UNCHANGED <<users, apiKeys, usageLog, pendingLogs, pendingTouches, lastResponse,
                 sent, decided, admitted, sequential, logFails>>

\* POST /v1/try-on: the upstream call returns an image (200) or fails (500)
UpstreamStatuses == {200, 500}

TryOnRespond(s, st) ==
  /\ reqs[s] # NoReq
  /\ reqs[s].pc = "upstream"
  /\ SendResponse(s, reqs[s], st, NoBody)
  /\ UNCHANGED <<now, rotVars, users, apiKeys, usageLog, pendingTouches, sent, decided,
                 admitted, sequential, logFails>>

\* one request to /v1/try-on through the gate and the rotator
ServerNext ==
  \/ \E h \in Headers : Arrive(h)
  \/ \E s \in Slots : GateLookup(s)
  \/ \E s \in Slots : GateQuota(s)
  \/ \E s \in Slots : TryOnInvalid(s)
  \/ \E s \in Slots, p \in Procs : TryOnFind(s, p)
  \/ \E s \in Slots : TryOnUpdate(s)
  \/ \E s \in Slots, st \in UpstreamStatuses : TryOnRespond(s, st)
  \/ \E e \in BagToSet(pendingLogs) : LogWrite(e)
  \/ \E e \in BagToSet(pendingLogs) : LogWriteFails(e)
  \/ \E t \in BagToSet(pendingTouches) : TouchKey(t)
  \/ \E t \in BagToSet(pendingTouches) : TouchKeyFails(t)

ServerSpecInit ==
  /\ now = 1
  /\ RotatorInit
  /\ GateInit

ServerSpec == ServerSpecInit /\ [][ServerNext]_vars

\* the error getNextApiKey throws when findFirst returns null; includesApiKey
\* is error.message.includes('API key'), which holds of this message
PoolExhaustedError ==
  [message |-> "All Gemini API keys are currently rate-limited.",
   includesApiKey |-> TRUE]

\* catch of POST /v1/try-on in routes/adminRoutes.js for an error that is
\* neither a ZodError nor an axios error: 401 when the message mentions
\* 'API key', otherwise next(error) and the 500 response
CatchStatus(error) == IF error.includesApiKey THEN 401 ELSE 500

\* POST /v1/try-on of routes/adminRoutes.js: await getNextApiKey(), first
\* statement; when the pool is exhausted the catch answers
TryOnFindKey(s, p) ==
  /\ reqs[s] # NoReq
  /\ reqs[s].pc = "handler"
  /\ getNextApiKeyFind(p)
  /\ IF findFirst(store) = {}
       THEN SendResponse(s, reqs[s], CatchStatus(PoolExhaustedError), NoBody)
       ELSE /\ reqs' = [reqs EXCEPT ![s] = [@ EXCEPT !.pc = "allocating", !.tx = p]]
            /\ UNCHANGED <<lastResponse, pendingLogs>>
  /\ UNCHANGED <<users, apiKeys, usageLog, pendingTouches, sent, decided,
                 admitted, sequential, logFails>>

\* one request to /v1/try-on as routes/adminRoutes.js serves it
ProductNext ==
  \/ \E h \in Headers : Arrive(h)
  \/ \E s \in Slots : GateLookup(s)
  \/ \E s \in Slots : GateQuota(s)
  \/ \E s \in Slots : TryOnInvalid(s)
  \/ \E s \in Slots, p \in Procs : TryOnFindKey(s, p)
  \/ \E s \in Slots : TryOnUpdate(s)
  \/ \E s \in Slots, st \in UpstreamStatuses : TryOnRespond(s, st)
  \/ \E e \in BagToSet(pendingLogs) : LogWrite(e)
  \/ \E e \in BagToSet(pendingLogs) : LogWriteFails(e)
  \/ \E t \in BagToSet(pendingTouches) : TouchKey(t)
  \/ \E t \in BagToSet(pendingTouches) : TouchKeyFails(t)

ProductSpec == ServerSpecInit /\ [][ProductNext]_vars


\* ------------------------------------------------ product key management

\* the users that log in to /api/keys
Accounts == 1..NumAccounts

\* keyPrefix as POST /api/keys stores it in every row, and the keyPrefix of
\* a row that another writer stored (the column is UNIQUE)
LivePrefix == <<"vto_live">>
OtherPrefix(i) == <<"other", i>>

\* no row with this id in the ApiKey table
NoApiKey ==
  [userId |-> 0, status |-> "none", keyHash |-> 0, keyPrefix |-> <<>>, lastUsedAt |-> Null]

StoredKeys == {i \in PKeys : apiKeys[i] # NoApiKey}

\* generateApiKey: randomBytes(32), a token whose hash no row holds
FreshTokens == {t \in Tokens : t # 0 /\ \A i \in PKeys : apiKeys[i].keyHash # hashApiKey(t)}

\* data of prisma.apiKey.create; status and lastUsedAt are column defaults
NewApiKeyRowPlain(u, t) ==
  [userId |-> u, status |-> "active", keyHash |-> t, keyPrefix |-> LivePrefix,
   lastUsedAt |-> Null]
NewApiKeyRow(u, t) ==
  [userId |-> u, status |-> "active", keyHash |-> hashApiKey(t), keyPrefix |-> LivePrefix,
   lastUsedAt |-> Null]

\* the UNIQUE indexes ApiKey_keyPrefix_key and ApiKey_keyHash_key reject the row
UniqueViolation(keys, row) ==
  \E i \in PKeys :
    keys[i] # NoApiKey /\ (keys[i].keyPrefix = row.keyPrefix \/ keys[i].keyHash = row.keyHash)

\* response of a key-management route to the logged-in user u, about the
\* key with the given id (0 when it is about no single key)
KeyResponse(u, id, st, body) ==
  [status |-> st, body |-> body, apiKeyData |-> id, userData |-> u, ord |-> 0]

keyFrame ==
  <<now, rotVars, users, usageLog, reqs, pendingLogs, pendingTouches, sent, decided,
    admitted, sequential, logFails>>

\* POST /api/keys by the logged-in user u: 400 when the name fails the
\* schema, 409 when the insert violates a unique index, else 201 with the
\* plaintext token and the selected fields of the new row; ids are SERIAL
CreateApiKey(u, valid, t) ==
  /\ t \in FreshTokens
  /\ IF ~valid
       THEN /\ lastResponse' = KeyResponse(u, 0, 400, [message |-> "Validation failed"])
            /\ UNCHANGED apiKeys
     ELSE IF UniqueViolation(apiKeys, NewApiKeyRow(u, t))
       THEN /\ lastResponse' = KeyResponse(u, 0, 409, [message |-> "exists"])
            /\ UNCHANGED apiKeys
     ELSE \E i \in PKeys :
            /\ apiKeys[i] = NoApiKey
            /\ \A j \in PKeys : j < i => apiKeys[j] # NoApiKey
            /\ apiKeys' = [apiKeys EXCEPT ![i] = NewApiKeyRow(u, t)]
            /\ lastResponse' =
                 KeyResponse(u, i, 201, [apiKey |-> t,
                                   keyDetails |-> [id |-> i, keyPrefix |-> LivePrefix]])
  /\ UNCHANGED keyFrame

\* where: { id: keyId, userId: req.user.id } of updateMany in DELETE /api/keys/:id
OwnedKeysAnyUser(keys, id, u) == {i \in PKeys : keys[i] # NoApiKey /\ i = id}
OwnedKeys(keys, id, u) ==
  {i \in PKeys : keys[i] # NoApiKey /\ i = id /\ keys[i].userId = u}

\* DELETE /api/keys/:id by the logged-in user u with a numeric id: 404 when
\* updateMany matched no row, else the row is revoked and 200
RevokeApiKeyHardDelete(u, id) ==
  /\ IF OwnedKeys(apiKeys, id, u) = {}
       THEN /\ lastResponse' = KeyResponse(u, id, 404, [message |-> "not found"])
            /\ UNCHANGED apiKeys
       ELSE /\ apiKeys' = [i \in PKeys |->
                             IF i \in OwnedKeys(apiKeys, id, u) THEN NoApiKey ELSE apiKeys[i]]
            /\ lastResponse' = KeyResponse(u, id, 200, [message |-> "revoked"])
  /\ UNCHANGED keyFrame
RevokeApiKey(u, id) ==
  /\ IF OwnedKeys(apiKeys, id, u) = {}
       THEN /\ lastResponse' = KeyResponse(u, id, 404, [message |-> "not found"])
            /\ UNCHANGED apiKeys
       ELSE /\ apiKeys' = [i \in PKeys |->
                             IF i \in OwnedKeys(apiKeys, id, u)
                               THEN [apiKeys[i] EXCEPT !.status = "revoked"]
                               ELSE apiKeys[i]]
            /\ lastResponse' = KeyResponse(u, id, 200, [message |-> "revoked"])
  /\ UNCHANGED keyFrame

\* DELETE /api/keys/:id where parseInt(req.params.id) is NaN
RevokeInvalidId(u) ==
  /\ lastResponse' = KeyResponse(u, 0, 400, [message |-> "Invalid key ID."])
  /\ UNCHANGED apiKeys
  /\ UNCHANGED keyFrame

\* the ids a DELETE request may name: those of the table and one beyond
KeyIdInputs == 1..(NumPKeys + 1)

\* select of findMany in GET /api/keys (name and createdAt are not modelled)
SelectSafeAll(i, row) ==
  [id |-> i, keyPrefix |-> row.keyPrefix, status |-> row.status,
   lastUsedAt |-> row.lastUsedAt, keyHash |-> row.keyHash, userId |-> row.userId]
SelectSafe(i, row) ==
  [id |-> i, keyPrefix |-> row.keyPrefix, status |-> row.status,
   lastUsedAt |-> row.lastUsedAt]

\* GET /api/keys by the logged-in user u: the selected fields of u's rows
ListApiKeys(u) ==
  /\ lastResponse' =
       KeyResponse(u, 0, 200, [keys |-> {SelectSafe(i, apiKeys[i]) :
                                     i \in {j \in StoredKeys : apiKeys[j].userId = u}}])
  /\ UNCHANGED apiKeys
  /\ UNCHANGED keyFrame

\* GET /api/account/status by the logged-in user u: account, subscription
\* and usage; usage is counted only under an active subscription
AccountStatus(u) ==
  /\ LET sub == users[u].currentSubscription
          used == IF IsActiveSub(sub)
                    THEN usageCount(usageLog, u, sub.currentPeriodStart) ELSE 0
          limit == IF sub # NoSub THEN sub.plan.requestLimitMonthly ELSE 0
     IN lastResponse' =
          KeyResponse(u, 0, 200,
            [account |-> [userId |-> u, status |-> users[u].accountStatus],
             subscription |-> [planName |-> IF sub # NoSub THEN sub.plan.name
                                                          ELSE "Free / None",
                               status |-> IF sub # NoSub THEN sub.status ELSE "inactive"],
             usage |-> [requestsUsed |-> used, requestLimit |-> limit,
                        requestsRemaining |-> IF limit > used THEN limit - used ELSE 0]])
  /\ UNCHANGED apiKeys
  /\ UNCHANGED keyFrame

\* the account that holds row i at the start
HolderOf(i) == ((i - 1) % NumAccounts) + 1

\* the ApiKey table at the start: rows 1..n that other writers stored, each
\* active or revoked, under the unique indexes
KeyTables ==
  {f \in [PKeys -> [userId : Accounts, status : {"active", "revoked"},
                     keyHash : {hashApiKey(t) : t \in Tokens \ {0}},
                     keyPrefix : {OtherPrefix(i) : i \in PKeys},
                     lastUsedAt : {Null}] \cup {NoApiKey}] :
     \A i \in PKeys :
       /\ f[i] # NoApiKey =>
            /\ f[i].userId = HolderOf(i)
            /\ f[i].keyHash = hashApiKey(i)
            /\ f[i].keyPrefix = OtherPrefix(i)
       /\ \A j \in PKeys : (j > i /\ f[j] # NoApiKey) => f[i] # NoApiKey}

KeySpecInit ==
  /\ now = 1
  /\ RotatorQuiet
  /\ users = [u \in Accounts |-> FreeUser]
  /\ apiKeys \in KeyTables
  /\ usageLog = EmptyBag
  /\ reqs = [s \in Slots |-> NoReq]
  /\ pendingLogs = EmptyBag
  /\ pendingTouches = EmptyBag
  /\ lastResponse = NoResponse
  /\ sent = 0
  /\ decided = [u \in Accounts |-> 0]
  /\ admitted = [u \in Accounts |-> 0]
  /\ sequential = TRUE
  /\ logFails = 0

\* key management by the accounts, and one gated request
KeyNext ==
  \/ \E u \in Accounts, valid \in BOOLEAN, t \in Tokens : CreateApiKey(u, valid, t)
  \/ \E u \in Accounts, id \in KeyIdInputs : RevokeApiKey(u, id)
  \/ \E u \in Accounts : RevokeInvalidId(u)
  \/ \E u \in Accounts : ListApiKeys(u)
  \/ \E u \in Accounts : AccountStatus(u)
  \/ \E h \in Headers : Arrive(h)
  \/ \E s \in Slots : GateLookup(s)
  \/ \E s \in Slots : GateQuota(s)
  \/ \E s \in Slots, st \in HandlerStatuses : Handler(s, st)
  \/ \E e \in BagToSet(pendingLogs) : LogWrite(e)
  \/ \E e \in BagToSet(pendingLogs) : LogWriteFails(e)
  \/ \E t \in BagToSet(pendingTouches) : TouchKey(t)
  \/ \E t \in BagToSet(pendingTouches) : TouchKeyFails(t)

KeySpec == KeySpecInit /\ [][KeyNext]_vars

\* ------------------------------------------------------------ properties

RECURSIVE SumCounts(_, _)
SumCounts(s, ks) ==
  IF ks = {} THEN 0
  ELSE LET k == CHOOSE x \in ks : TRUE
       IN s[k].requestCount + SumCounts(s, ks \ {k})

RECURSIVE SumRemaining(_, _)
SumRemaining(s, ks) ==
  IF ks = {} THEN 0
  ELSE LET k == CHOOSE x \in ks : TRUE
       IN (MAX_REQUESTS - s[k].requestCount) + SumRemaining(s, ks \ {k})

\* a row the claims call eligible
IsEligibleRow(row) == ~row.isRateLimited /\ row.requestCount < MAX_REQUESTS
EligibleIds(s) == {k \in Present(s) : IsEligibleRow(s[k])}
Capacity(s) == SumRemaining(s, EligibleIds(s))
AllIdle == \A p \in Procs : pc[p] = "idle"

\* C1: in every reachable state, whatever the interleaving of callers and
\* reset firings, no credential's requestCount exceeds 249.
C1_CountWithinCeiling ==
  \A k \in Present(store) : store[k].requestCount <= MAX_REQUESTS

\* a credential sits at the ceiling while a caller that read it earlier is
\* still about to write, and another caller has already committed
C1_Witness ==
  \E p \in Procs :
    /\ pc[p] = "update"
    /\ store[nextKey[p].id].requestCount = MAX_REQUESTS
    /\ handed[nextKey[p].id] > periodStore[nextKey[p].id].requestCount
    /\ resets = 0 /\ created = 0

\* C2: with no reset in between, the sum of requestCount over all
\* credentials has grown by exactly the number of calls that returned a key.
C2_NoLostIncrement ==
  resets = 0 =>
    SumCounts(store, Present(store)) = SumCounts(periodStore, Present(periodStore)) + succ

\* C3: N calls against a pool of combined remaining capacity C < N, no reset
\* (and no new credential) in between: exactly C return a key, N - C fail.
C3_ExactlyCapacitySucceed ==
  (AllIdle /\ resets = 0 /\ created = 0 /\ Capacity(periodStore) < calls) =>
    (succ = Capacity(periodStore) /\ fail = calls - Capacity(periodStore))

\* C4: between two consecutive resets a credential is returned by at most
\* 249 calls (counting from count 0), whatever the interleaving.
C4_AtMostCeilingHandouts ==
  \A k \in KeyIds : handed[k] <= MAX_REQUESTS

\* C5: once a reset and all in-flight allocations have completed, each
\* credential's requestCount is the number of allocations of it committed
\* after the reset, and isRateLimited only if that number is 249 or more.
C5_NoStaleWriteAcrossReset ==
  (resets >= 1 /\ AllIdle) =>
    \A k \in Present(store) :
      /\ store[k].requestCount = handed[k]
      /\ store[k].isRateLimited => handed[k] >= MAX_REQUESTS

\* C6: the credential getNextApiKey selects, and then returns, has the
\* oldest lastUsedAt among the credentials that are eligible (not
\* rate-limited, count below 249) when the call reads the table.
C6_ReturnsOldestEligible ==
  [][\A p \in Procs :
       /\ (pc[p] = "idle" /\ pc'[p] = "update") =>
            LET k == nextKey'[p].id
            IN /\ k \in EligibleIds(store)
               /\ nextKey'[p].row = store[k]
               /\ \A j \in EligibleIds(store) :
                    store[k].lastUsedAt <= store[j].lastUsedAt
       /\ (pc[p] = "update" /\ pc'[p] = "idle") =>
            /\ succ' = succ + 1
            /\ handed' = [handed EXCEPT ![nextKey[p].id] = @ + 1]
            /\ store'[nextKey[p].id].lastUsedAt = now]_vars

\* a caller selected a credential although a younger eligible one exists
C6_Witness ==
  \E p \in Procs :
    /\ pc[p] = "update"
    /\ \E j \in EligibleIds(store) :
         /\ j # nextKey[p].id
         /\ store[j].lastUsedAt > nextKey[p].row.lastUsedAt

\* C7: in every reachable state a credential's isRateLimited flag is true
\* if and only if its requestCount is at least 249.
C7_FlagIffAtCeiling ==
  \A k \in Present(store) :
    store[k].isRateLimited <=> (store[k].requestCount >= MAX_REQUESTS)

\* an allocation has just brought a credential to the ceiling and set the flag
C7_Witness ==
  \E k \in Present(periodStore) :
    /\ ~periodStore[k].isRateLimited
    /\ store[k].isRateLimited
    /\ handed[k] > periodStore[k].requestCount
    /\ resets = 0

\* C8: when no credential is eligible (or the pool is empty) a call fails
\* with the pool-exhausted error and leaves every credential unchanged.
C8_ExhaustedLeavesStore ==
  [][(calls' = calls + 1 /\ EligibleIds(store) = {}) =>
       /\ fail' = fail + 1
       /\ succ' = succ
       /\ pc' = pc
       /\ nextKey' = nextKey
       /\ handed' = handed
       /\ store' = store]_vars

\* a call failed on a non-empty pool whose credentials are all rate-limited
C8_Witness ==
  /\ fail >= 1
  /\ Present(store) # {}
  /\ \A k \in Present(store) : store[k].isRateLimited
  /\ resets = 0

AllReset(s) ==
  \A k \in Present(s) : s[k].requestCount = 0 /\ s[k].isRateLimited = FALSE

\* C9: after a successful reset firing every credential has requestCount 0
\* and isRateLimited false whatever its state before, and a reset of an
\* already reset table leaves the table unchanged.
C9_ResetZeroesAndIdempotent ==
  [][resets' = resets + 1 =>
       /\ Present(store') = Present(store)
       /\ AllReset(store')
       /\ \A k \in Present(store) : store'[k].lastUsedAt = store[k].lastUsedAt
       /\ AllReset(store) => store' = store]_vars

\* two resets have run with no allocation after the first, over a credential
\* that a caller still in flight had read one below the ceiling
C9_Witness ==
  /\ resets = 2
  /\ succ = 0
  /\ \E p \in Procs :
       /\ pc[p] = "update"
       /\ nextKey[p].row.requestCount = MAX_REQUESTS - 1
       /\ store[nextKey[p].id].requestCount = 0
       /\ ~store[nextKey[p].id].isRateLimited

\* C10: a user with no current subscription who sends gated requests one
\* after another, all within the 30-day window and with no failed log write,
\* is admitted for requests 1 to 5 and rejected with 429 on request 6.
C10_FreeTierFiveThenReject ==
  (sequential /\ logFails = 0 /\ now <= PriorStamp + FREE_WINDOW_DAYS) =>
    /\ \A s \in Slots :
         (/\ reqs[s] # NoReq
          /\ reqs[s].pc = "handler"
          /\ users[reqs[s].userData].currentSubscription = NoSub) =>
            reqs[s].ord # FREE_TIER_LIMIT + 1
    /\ (/\ lastResponse.status = 429
        /\ users[lastResponse.userData].currentSubscription = NoSub) =>
          lastResponse.ord \notin 1..FREE_TIER_LIMIT

\* ------------------------------------------------- properties of the gate

\* the entries of user u in the ledger with requestTimestamp at or after t
EntriesAtOrAfter(log, u, t) ==
  BagCardinality([e \in {x \in BagToSet(log) :
                           x.userId = u /\ x.requestTimestamp >= t} |-> CopiesIn(e, log)])

\* the entries written since the start (the earlier ones carry PriorStamp)
NewEntries(log) ==
  BagCardinality([e \in {x \in BagToSet(log) :
                           x.requestTimestamp > PriorStamp} |-> CopiesIn(e, log)])

Held(s) == reqs[s] # NoReq
NoneHeld == \A s \in Slots : ~Held(s)
SubOf(u) == users[u].currentSubscription
HasActiveSub(u) == SubOf(u) # NoSub /\ SubOf(u).status = "active"

\* the request in slot s completes its quota check in this step
QuotaStep(s) == Held(s) /\ reqs[s].pc = "quota" /\ reqs'[s] # reqs[s]

\* a response of the downstream handler, i.e. of an admitted request
AnsweredAdmitted == lastResponse.status \in HandlerStatuses

\* C11: a request of a user with an active subscription of limit L is
\* rejected with 429 when the ledger holds L or more entries of the user at
\* or after currentPeriodStart and admitted when it holds L - 1 or fewer; for
\* the admitted request no entry is written before the response, and after
\* it exactly one write exists, which is pending, written or failed.
C11_PlanLimitAndOneEntry ==
  /\ [][\A s \in Slots :
          (QuotaStep(s) /\ HasActiveSub(reqs[s].userData)) =>
            LET u == reqs[s].userData
                L == SubOf(u).plan.requestLimitMonthly
                n == EntriesAtOrAfter(usageLog, u, SubOf(u).currentPeriodStart)
            IN /\ n >= L => (~Held(s))' /\ lastResponse'.status = 429
               /\ n <= L - 1 => Held(s)' /\ reqs'[s].pc = "handler"]_vars
  /\ [](\A s \in Slots :
          (Held(s) /\ reqs[s].pc = "handler") =>
             NewEntries(usageLog) = 0 /\ pendingLogs = EmptyBag)
  /\ []((AnsweredAdmitted /\ HasActiveSub(lastResponse.userData)) =>
          /\ NewEntries(usageLog) + BagCardinality(pendingLogs) + logFails = 1
          /\ \A e \in BagToSet(usageLog) :
               e.requestTimestamp > PriorStamp => e.userId = lastResponse.userData)

C11_Witness ==
  /\ AnsweredAdmitted
  /\ HasActiveSub(lastResponse.userData)
  /\ NewEntries(usageLog) = 1
  /\ EntriesAtOrAfter(usageLog, lastResponse.userData,
                      SubOf(lastResponse.userData).currentPeriodStart)
       = SubOf(lastResponse.userData).plan.requestLimitMonthly

\* the limit and the window start that apply to user u
LimitOf(u) ==
  IF HasActiveSub(u) THEN SubOf(u).plan.requestLimitMonthly ELSE FREE_TIER_LIMIT
WindowStartOf(u) ==
  IF HasActiveSub(u) THEN SubOf(u).currentPeriodStart ELSE now - FREE_WINDOW_DAYS

\* the entries of user u that the ledger held at the start
PriorEntries(u) ==
  BagCardinality([e \in {x \in BagToSet(usageLog) :
                           x.userId = u /\ x.requestTimestamp = PriorStamp}
                    |-> CopiesIn(e, usageLog)])

\* C12: when all requests of a user fall in one quota window, the number
\* of them the gate admitted in that window is at most the limit plus one,
\* also when the requests are concurrent.
C12_OvershootAtMostOne ==
  \A u \in Users :
    (WindowStartOf(u) <= PriorStamp /\ PriorEntries(u) <= LimitOf(u)) =>
      admitted[u] <= LimitOf(u) + 1

\* the header carries the token of product key i
Presents(h, i) == h # NoHeader /\ h.scheme = "Bearer" /\ h.cred = i

\* the request in slot s completes the middleware's lookup in this step
LookupStep(s) == Held(s) /\ reqs[s].pc = "sent" /\ reqs'[s] # reqs[s]

RevokedResponse == lastResponse.status = 403 /\ lastResponse.body = [error |-> "revoked"]

LacksBearer(h) == h = NoHeader \/ h.scheme = "Basic"

\* a bearer token whose hash is the keyHash of no product key
UnknownToken(h) ==
  /\ ~LacksBearer(h)
  /\ \A i \in PKeys : apiKeys[i].keyHash # hashApiKey(h.cred)

MissingResponse == lastResponse.status = 401 /\ lastResponse.body = [error |-> "missing"]
InvalidResponse == lastResponse.status = 401 /\ lastResponse.body = [error |-> "invalid"]

\* C14: a request without a bearer token is answered 401 "missing" and one
\* with an unknown token 401 "invalid"; neither writes or starts a usage
\* entry, and neither changes the credential table or a product key's
\* lastUsedAt, then or later.
C14_UnauthenticatedNoEffect ==
  /\ [][\A s \in Slots :
          (LookupStep(s) /\ (LacksBearer(reqs[s].header) \/ UnknownToken(reqs[s].header))) =>
            /\ (~Held(s))'
            /\ LacksBearer(reqs[s].header) => MissingResponse'
            /\ UnknownToken(reqs[s].header) => InvalidResponse'
            /\ UNCHANGED <<store, apiKeys, usageLog, pendingLogs, pendingTouches>>]_vars
  /\ []((MissingResponse \/ InvalidResponse) =>
          /\ NewEntries(usageLog) = 0 /\ pendingLogs = EmptyBag /\ logFails = 0
          /\ pendingTouches = EmptyBag
          /\ \A i \in PKeys : apiKeys[i].lastUsedAt = Null
          /\ store = periodStore /\ calls = 0)

C14_Witness ==
  /\ InvalidResponse
  /\ NoneHeld
  /\ Present(store) # {}
  /\ usageLog # EmptyBag

SuspendedResponse == lastResponse.status = 403 /\ lastResponse.body = [error |-> "suspended"]

\* the owner of product key i is over quota
OverLimit(u) == EntriesAtOrAfter(usageLog, u, WindowStartOf(u)) >= LimitOf(u)

\* the header passes the four checks before the quota check
PassesKeyChecks(h) ==
  \E i \in PKeys :
    /\ Presents(h, i)
    /\ apiKeys[i].status = "active"
    /\ users[OwnerOf(i)].accountStatus # "suspended"

\* C15: the gate reports the first failing check in the order missing
\* credential, invalid credential, revoked key, suspended account, quota
\* exceeded, whatever the later checks would say, and a request reaches the
\* handler only if all five pass.
C15_FirstFailingCheck ==
  /\ [][\A s \in Slots :
          LookupStep(s) =>
            LET h == reqs[s].header
            IN /\ LacksBearer(h) => MissingResponse'
               /\ UnknownToken(h) => InvalidResponse'
               /\ \A i \in PKeys :
                    Presents(h, i) =>
                      /\ apiKeys[i].status = "revoked" => RevokedResponse'
                      /\ (/\ apiKeys[i].status = "active"
                          /\ users[OwnerOf(i)].accountStatus = "suspended") =>
                             SuspendedResponse'
               /\ PassesKeyChecks(h) <=> (Held(s)' /\ reqs'[s].pc = "quota")]_vars
  /\ [][\A s \in Slots :
          QuotaStep(s) =>
            /\ OverLimit(reqs[s].userData) => (~Held(s))' /\ lastResponse'.status = 429
            /\ ~OverLimit(reqs[s].userData) => Held(s)' /\ reqs'[s].pc = "handler"]_vars
  /\ [](\A s \in Slots :
          (Held(s) /\ reqs[s].pc \in {"quota", "handler"}) =>
            PassesKeyChecks(reqs[s].header))

C15_Witness ==
  /\ RevokedResponse
  /\ users[1].accountStatus = "suspended"
  /\ OverLimit(1)
  /\ \A i \in PKeys : OwnerOf(i) = 1 => apiKeys[i].status = "revoked"

InHandler(s) == Held(s) /\ reqs[s].pc \in {"handler", "allocating", "upstream"}

\* C17: for an admitted request no usage entry exists before the response;
\* after it there is exactly one write, pending, written or failed, never a
\* second entry, and the entry carries the status of the response, whether
\* the handler answered 200, 400 or 500 (upstream error, pool exhausted).
C17_OneEntryWithFinalStatus ==
  /\ [](\A s \in Slots :
          InHandler(s) => NewEntries(usageLog) = 0 /\ pendingLogs = EmptyBag)
  /\ [](AnsweredAdmitted =>
          /\ NewEntries(usageLog) + BagCardinality(pendingLogs) + logFails = 1
          /\ (pendingLogs = EmptyBag /\ logFails = 0) => NewEntries(usageLog) = 1
          /\ \A e \in BagToSet(usageLog) :
               e.requestTimestamp > PriorStamp =>
                 /\ e.httpStatusCode = lastResponse.status
                 /\ e.userId = lastResponse.userData
                 /\ e.apiKeyId = lastResponse.apiKeyData
          /\ \A e \in BagToSet(pendingLogs) : e.httpStatusCode = lastResponse.status)
  /\ [][\A s \in Slots :
          (InHandler(s) /\ (~Held(s))') =>
            /\ AnsweredAdmitted'
            /\ BagCardinality(pendingLogs') = 1
            /\ usageLog' = usageLog]_vars

C17_Witness ==
  /\ lastResponse.status = 500
  /\ fail = 1
  /\ NewEntries(usageLog) = 1
  /\ \E e \in BagToSet(usageLog) : e.httpStatusCode = 500

\* C18: every usage entry records a request the gate admitted: a user never
\* has more entries than admitted requests, and no entry carries the status
\* of a quota rejection.
C18_EntriesOnlyForAdmitted ==
  \A u \in Users :
    /\ EntriesAtOrAfter(usageLog, u, PriorStamp) <= admitted[u]
    /\ \A e \in BagToSet(usageLog) : e.userId = u => e.httpStatusCode # 429

GateRejection == lastResponse.status \in {401, 403, 429}

\* C19: getNextApiKey runs only for a request that passed all five checks:
\* the step that rejects a request leaves the credential table and the
\* rotator untouched, and after a rejection no credential has changed.
C19_RejectionNeverAllocates ==
  /\ [][(store' # store \/ calls' # calls) =>
          \E s \in Slots :
            /\ InHandler(s)
            /\ PassesKeyChecks(reqs[s].header)
            /\ ~OverLimit(reqs[s].userData)]_vars
  /\ [][\A s \in Slots :
          (Held(s) /\ ~InHandler(s) /\ (~Held(s))') =>
            /\ GateRejection'
            /\ UNCHANGED <<store, calls, pc, nextKey, succ, fail, handed>>]_vars
  /\ [](GateRejection => store = periodStore /\ calls = 0)

C19_Witness ==
  /\ lastResponse.status = 429
  /\ NoneHeld
  /\ EligibleIds(store) # {}
  /\ pendingLogs = EmptyBag

\* C20: a usage-log write is started only by the step that sends a
\* response, and a write that fails changes neither the response the caller
\* received nor any request: the caller sees what it sees when the write
\* succeeds.
C20_LogFailureAfterResponse ==
  /\ [][BagCardinality(pendingLogs') > BagCardinality(pendingLogs) =>
          /\ \E s \in Slots : Held(s) /\ (~Held(s))'
          /\ lastResponse'.status # 0]_vars
  /\ [][logFails' # logFails =>
          /\ lastResponse' = lastResponse
          /\ reqs' = reqs
          /\ usageLog' = usageLog]_vars
  /\ [][usageLog' # usageLog =>
          /\ lastResponse' = lastResponse
          /\ reqs' = reqs
          /\ logFails' = logFails]_vars

C20_Witness ==
  /\ logFails = 1
  /\ lastResponse.status = 200
  /\ NoneHeld
  /\ NewEntries(usageLog) = 0
  /\ pendingLogs = EmptyBag

\* C21: when getNextApiKey fails with pool exhaustion during an admitted
\* request, the response the caller receives has a status of the 5xx class.
C21_ExhaustionIsServerError ==
  [][\A s \in Slots :
       (InHandler(s) /\ fail' = fail + 1) =>
         /\ (~Held(s))'
         /\ lastResponse'.status \in 500..599]_vars

\* C22: pool exhaustion ends with the next successful reset firing: on a
\* non-empty pool the firing leaves every credential eligible, so findFirst
\* has a row to return, and a getNextApiKey call made on the table as the
\* firing left it does not fail but goes on to return a credential.
C22_ResetEndsExhaustion ==
  /\ [][(resets' = resets + 1 /\ Present(store) # {}) =>
          /\ EligibleIds(store') = Present(store)
          /\ findFirst(store') # {}]_vars
  /\ [][(calls' = calls + 1 /\ resets >= 1 /\ store = periodStore
            /\ Present(store) # {}) =>
          /\ fail' = fail
          /\ \E p \in Procs : pc[p] = "idle" /\ pc'[p] = "update"]_vars
  /\ [][\A p \in Procs :
          (pc[p] = "update" /\ pc'[p] = "idle") => succ' = succ + 1]_vars

\* a call failed on a pool whose credentials were all rate-limited (no
\* credential had been used before the firing, none was added), the reset
\* fired, and the next call returned a credential
C22_Witness ==
  /\ resets = 1 /\ resetErrors = 0 /\ created = 0
  /\ calls = 2 /\ succ = 1 /\ fail = 0
  /\ AllIdle
  /\ Present(store) # {}
  /\ \A k \in Present(store) : periodStore[k].lastUsedAt = 0
  /\ SumCounts(store, Present(store)) = 1

\* C23: a firing whose updateMany fails changes nothing but the number of
\* failed firings: the credential table, the callers and the scheduler are
\* as before, so calls and further firings go on; a successful firing after
\* a failed one leaves every credential at count 0 and not rate-limited.
C23_FailedResetLeavesStore ==
  /\ [][resetErrors' = resetErrors + 1 =>
          /\ UNCHANGED <<store, pc, nextKey, calls, succ, fail, handed,
                         resets, created, periodStore, now>>
          /\ UNCHANGED gateVars]_vars
  /\ [][(resets' = resets + 1 /\ resetErrors >= 1) =>
          /\ Present(store') = Present(store)
          /\ AllReset(store')]_vars
  /\ [](resets = 0 /\ created = 0 /\ succ = 0 /\ AllIdle => store = periodStore)

\* a firing has failed over an exhausted pool, which is still exhausted, and
\* the scheduler has a firing left
C23_Witness ==
  /\ resetErrors = 1 /\ resets = 0
  /\ resets + resetErrors < MaxFirings
  /\ fail >= 1
  /\ Present(store) # {}
  /\ \A k \in Present(store) : store[k].isRateLimited /\ store[k] = periodStore[k]

\* ------------------------------------------ properties of key management

\* the bearer token of header h hashes to the keyHash of row i
Resolves(h, i) ==
  /\ ~LacksBearer(h)
  /\ apiKeys[i] # NoApiKey
  /\ apiKeys[i].keyHash = hashApiKey(h.cred)

\* C24: no step removes a product key record, changes its owner or its
\* hash, or takes a revoked key back to active, and a gated request whose
\* lookup runs while the key is revoked is answered 403 "revoked".
C24_RevokedIsFinal ==
  /\ [][\A i \in PKeys :
          apiKeys[i] # NoApiKey =>
            /\ apiKeys'[i] # NoApiKey
            /\ apiKeys'[i].userId = apiKeys[i].userId
            /\ apiKeys'[i].keyHash = apiKeys[i].keyHash
            /\ apiKeys[i].status = "revoked" => apiKeys'[i].status = "revoked"]_vars
  /\ [][\A s \in Slots : \A i \in PKeys :
          (LookupStep(s) /\ Resolves(reqs[s].header, i) /\ apiKeys[i].status = "revoked") =>
            /\ (~Held(s))'
            /\ RevokedResponse']_vars
  /\ [](\A i \in PKeys : apiKeys[i].status \in {"none", "active", "revoked"})

\* a key created by POST /api/keys was revoked by its owner, and a request
\* sent with its token afterwards was rejected; no other key is revoked
C24_Witness ==
  /\ RevokedResponse
  /\ NoneHeld
  /\ \E i \in PKeys : apiKeys[i].keyPrefix = LivePrefix /\ apiKeys[i].status = "revoked"
  /\ \A i \in PKeys : apiKeys[i].status = "revoked" => apiKeys[i].keyPrefix = LivePrefix

\* row i is inserted in this step
Inserted(i) == apiKeys[i] = NoApiKey /\ apiKeys'[i] # NoApiKey

\* C25: the token a 201 response of POST /api/keys returns hashes to the
\* keyHash of the row that was inserted and of no other row; no two rows
\* ever share a hash; and a gated request whose token hashes to the keyHash
\* of a key that is not revoked is not answered "invalid" but goes on as a
\* request of exactly that key and its owner.
C25_TokenRoundTrip ==
  /\ [][\A i \in PKeys :
          Inserted(i) =>
            /\ lastResponse'.status = 201
            /\ lastResponse'.body.keyDetails.id = i
            /\ apiKeys'[i].keyHash = hashApiKey(lastResponse'.body.apiKey)
            /\ apiKeys'[i].status = "active"
            /\ findUnique(apiKeys', hashApiKey(lastResponse'.body.apiKey)) = {i}]_vars
  /\ [][(lastResponse'.status = 201 /\ lastResponse' # lastResponse) =>
          \E i \in PKeys : Inserted(i)]_vars
  /\ [](\A i \in StoredKeys : \A j \in StoredKeys :
          apiKeys[i].keyHash = apiKeys[j].keyHash => i = j)
  /\ [][\A s \in Slots : \A i \in PKeys :
          (LookupStep(s) /\ Resolves(reqs[s].header, i) /\ apiKeys[i].status # "revoked") =>
            /\ ~InvalidResponse'
            /\ Held(s)'
            /\ reqs'[s].pc = "quota"
            /\ reqs'[s].apiKeyData = i
            /\ reqs'[s].userData = apiKeys[i].userId]_vars

\* a request with the token of a key that POST /api/keys created has passed
\* the lookup, next to a row of another account
C25_Witness ==
  \E s \in Slots :
    /\ Held(s)
    /\ reqs[s].pc = "quota"
    /\ apiKeys[reqs[s].apiKeyData].keyPrefix = LivePrefix
    /\ apiKeys[reqs[s].apiKeyData].keyHash = hashApiKey(reqs[s].header.cred)
    /\ \E j \in StoredKeys : apiKeys[j].userId # reqs[s].userData

\* C26: a POST /api/keys with a valid name by a logged-in user answers 201
\* and stores a record of its own, however many product keys the table
\* already holds for that user or for others.
C26_CreateAlwaysSucceeds ==
  [][(lastResponse' # lastResponse /\ lastResponse'.status \in {201, 409}) =>
       /\ lastResponse'.status = 201
       /\ \E i \in PKeys : Inserted(i)]_vars

\* the fields that would disclose a token or its hash
SecretFields == {"apiKey", "keyHash"}

\* the body, and the key records listed in it, have no such field
NoSecret(body) ==
  /\ SecretFields \cap DOMAIN body = {}
  /\ "keys" \in DOMAIN body =>
       \A item \in body.keys : SecretFields \cap DOMAIN item = {}

RevokeResponse(resp) ==
  /\ resp.status \in {200, 404}
  /\ "message" \in DOMAIN resp.body
  /\ resp.body.message \in {"revoked", "not found"}

\* C30: a DELETE /api/keys/:id by user u is answered 404 and changes no key
\* when no key has that id or the key belongs to another user; when u owns
\* the key it is answered 200, that key is revoked and every other key is
\* as before.  No key becomes revoked in any other way.
C30_RevokeOwnKeysOnly ==
  /\ [][(lastResponse' # lastResponse /\ RevokeResponse(lastResponse')) =>
          LET u == lastResponse'.userData
              id == lastResponse'.apiKeyData
          IN IF id \in StoredKeys /\ apiKeys[id].userId = u
               THEN /\ lastResponse'.status = 200
                    /\ apiKeys' = [apiKeys EXCEPT ![id].status = "revoked"]
               ELSE /\ lastResponse'.status = 404
                    /\ apiKeys' = apiKeys]_vars
  /\ [][\A i \in StoredKeys :
          (apiKeys[i].status # "revoked" /\ apiKeys'[i].status = "revoked") =>
            /\ lastResponse'.status = 200
            /\ lastResponse'.apiKeyData = i
            /\ lastResponse'.userData = apiKeys[i].userId
            /\ \A j \in PKeys : j # i => apiKeys'[j] = apiKeys[j]]_vars

\* a user asked to revoke a key of another user, which is still active,
\* after revoking a key of their own
C30_Witness ==
  /\ lastResponse.status = 404
  /\ lastResponse.apiKeyData \in StoredKeys
  /\ apiKeys[lastResponse.apiKeyData].userId # lastResponse.userData
  /\ apiKeys[lastResponse.apiKeyData].status = "active"
  /\ \E j \in StoredKeys :
       apiKeys[j].userId = lastResponse.userData /\ apiKeys[j].status = "revoked"

\* the entries of user u at or after t that key i wrote with a status below 400
EntriesOfKeyOk(log, u, i, t) ==
  BagCardinality([e \in {x \in BagToSet(log) :
                           /\ x.userId = u /\ x.requestTimestamp >= t
                           /\ x.apiKeyId = i /\ x.httpStatusCode < 400}
                    |-> CopiesIn(e, log)])

\* C28: the quota check compares the limit with the number of entries of
\* the key's owner at or after the window start, whichever key wrote them
\* and whatever status they carry; that number is what a 429 reports.
C28_CountPerUserAnyOutcome ==
  [][\A s \in Slots :
       QuotaStep(s) =>
         LET u == reqs[s].userData
             n == EntriesAtOrAfter(usageLog, u, WindowStartOf(u))
         IN IF n >= LimitOf(u)
              THEN /\ (~Held(s))'
                   /\ lastResponse'.status = 429
                   /\ lastResponse'.body.used = n
              ELSE /\ Held(s)'
                   /\ reqs'[s].pc = "handler"]_vars

\* a request is rejected over a ledger in which the presented key's own
\* successful entries are fewer than the limit: entries of another key of
\* the user and entries with status 500 made the difference
C28_Witness ==
  /\ lastResponse.status = 429
  /\ NoneHeld
  /\ LET u == lastResponse.userData
     IN /\ EntriesOfKeyOk(usageLog, u, lastResponse.apiKeyData, WindowStartOf(u)) < LimitOf(u)
        /\ \E e \in BagToSet(usageLog) :
             /\ e.userId = u
             /\ e.apiKeyId # lastResponse.apiKeyData
             /\ e.httpStatusCode = 500
             /\ e.requestTimestamp >= WindowStartOf(u)

\* C29: the body of a 429 reports the policy that was applied: limit is the
\* limit the count was compared with, used is the count, and plan is
\* 'Free Tier' exactly when the free-tier limit was applied, the name of the
\* plan when the plan's limit was applied.
C29_QuotaBodyReportsPolicy ==
  [][\A s \in Slots :
       (QuotaStep(s) /\ (~Held(s))') =>
         LET u == reqs[s].userData
         IN /\ lastResponse'.status = 429
            /\ lastResponse'.body.limit = LimitOf(u)
            /\ lastResponse'.body.used = EntriesAtOrAfter(usageLog, u, WindowStartOf(u))
            /\ IF HasActiveSub(u)
                 THEN lastResponse'.body.plan = SubOf(u).plan.name
                 ELSE lastResponse'.body.plan = "Free Tier"]_vars
====
